---- MODULE Spec2Model ----
(***************************************************************************)
(* A model of the two-agent literature-review assistant:                   *)
(*   src/backend.py   arxiv_search, build_team, run_litrev                 *)
(*   src/frontend.py  the Streamlit page: widgets, _runner, the            *)
(*                    asyncio.run / new_event_loop fallback                *)
(*                                                                         *)
(* A Python str is modelled as a sequence of tokens.  A token is ":"      *)
(* (the separator frontend.py splits at), " " (whitespace, what str.strip  *)
(* removes) or a chunk of text holding neither a colon nor leading or      *)
(* trailing whitespace ("a", "search_agent", ...).                         *)
(***************************************************************************)
EXTENDS Naturals, Sequences, FiniteSets, TLC

\* ------------------------------------------------------------------ bounds
MaxStrLen == 3        \* longest string drawn for the frame round trip
MaxToolCalls == 2     \* most tool calls in one model response
MaxInvocations == 2   \* most arxiv_search invocations in one request
MaxHits == 2          \* most results the search service has for a query
MaxResultsArg == 2    \* largest max_results a tool call asks for

\* --------------------------------------------------------- program constants
MinPapers == 1        \* st.slider("Number of papers", 1, 10, 5)
MaxPapers == 10
DefaultPapers == 5
max_turns == 2        \* RoundRobinGroupChat(..., max_turns=2)

\* ------------------------------------------------------------------ strings
Alphabet == {"a", ":", " "}

RECURSIVE StringsUpTo(_)
StringsUpTo(n) ==
    IF n = 0 THEN {<<>>}
    ELSE LET shorter == StringsUpTo(n - 1)
         IN  shorter \cup {Append(s, ch) : s \in shorter, ch \in Alphabet}

Range(s) == {s[i] : i \in 1..Len(s)}

\* str.strip(): leading and trailing whitespace removed.
RECURSIVE lstrip(_)
lstrip(s) == IF s # <<>> /\ Head(s) = " " THEN lstrip(Tail(s)) ELSE s

RECURSIVE rstrip(_)
rstrip(s) ==
    IF s # <<>> /\ s[Len(s)] = " " THEN rstrip(SubSeq(s, 1, Len(s) - 1)) ELSE s

strip(s) == rstrip(lstrip(s))

\* The index of the first ":" of s, 0 when there is none.
FirstColon(s) ==
    IF \E i \in 1..Len(s) : s[i] = ":"
    THEN CHOOSE i \in 1..Len(s) : s[i] = ":" /\ \A j \in 1..(i - 1) : s[j] # ":"
    ELSE 0

\* frame.split(":", 1): the list of the pieces, one or two of them.
split_colon(frame) ==
    LET k == FirstColon(frame)
    IN  IF k = 0 THEN <<frame>>
        ELSE <<SubSeq(frame, 1, k - 1), SubSeq(frame, k + 1, Len(frame))>>

\* ------------------------------------------------------------------ messages
Msg(t, s, c) == [type |-> t, source |-> s, content |-> c]

\* run_litrev, line 134, with the separator dropped: a plausible slip.
format_frame_nosep(msg) == msg.source \o msg.content

\* run_litrev, line 134: f"{msg.source}: {msg.content}"
format_frame(msg) == msg.source \o <<":", " ">> \o msg.content

\* run_litrev, lines 132-134: the frames one message of the stream yields.
run_litrev_frames(msg) ==
    IF msg.type = "TextMessage" THEN <<format_frame(msg)>> ELSE <<>>

\* _runner, lines 28-32: role, *rest = frame.split(":", 1);
\* content = rest[0].strip() if rest else "";  the chat entry shown.
render(frame) ==
    LET parts == split_colon(frame)
    IN  [role    |-> parts[1],
         content |-> IF Len(parts) > 1 THEN strip(parts[2]) ELSE <<>>]

\* ------------------------------------------- the frame round trip, on its own
VARIABLES cmsg, cframes, centries, cstage

cvars == <<cmsg, cframes, centries, cstage>>

CodecInitial ==
    /\ cmsg = Msg("TextMessage", <<"a">>, <<"a">>)
    /\ cframes = <<>>
    /\ centries = <<>>
    /\ cstage = "message"

\* the team's stream hands run_litrev one message
CodecInputs ==
    /\ cmsg \in {Msg(t, s, c) : t \in {"TextMessage", "ToolCallRequestEvent"},
                                s \in StringsUpTo(MaxStrLen - 1),
                                c \in StringsUpTo(MaxStrLen)}
    /\ cframes = <<>>
    /\ centries = <<>>
    /\ cstage = "message"

\* run_litrev yields the message's frames
CodecYield ==
    /\ cstage = "message"
    /\ cframes' = run_litrev_frames(cmsg)
    /\ cstage' = "yielded"
    /\ UNCHANGED <<cmsg, centries>>

\* _runner renders every frame it is handed
CodecRender ==
    /\ cstage = "yielded"
    /\ centries' = [i \in 1..Len(cframes) |-> render(cframes[i])]
    /\ cstage' = "rendered"
    /\ UNCHANGED <<cmsg, cframes>>


\* -------------------------------------------------------------- arxiv_search
\* What the search service holds: arxiv.Result objects.
Results ==
    {[title |-> "t1", authors |-> <<[name |-> "x"]>>,
      published |-> [year |-> 2024, month |-> 3, day |-> 7],
      summary |-> "s1", pdf_url |-> "u1"],
     [title |-> "t2", authors |-> <<[name |-> "x"], [name |-> "y"]>>,
      published |-> [year |-> 2023, month |-> 11, day |-> 21],
      summary |-> "s2", pdf_url |-> "u2"]}

RECURSIVE HitsUpTo(_)
HitsUpTo(n) ==
    IF n = 0 THEN {<<>>}
    ELSE LET shorter == HitsUpTo(n - 1)
         IN  shorter \cup {Append(h, r) : h \in shorter, r \in Results}

Pad2(n) == IF n < 10 THEN <<"0", ToString(n)>> ELSE <<ToString(n)>>

\* result.published.strftime("%Y-%m-%d"), line 53
strftime(date) ==
    <<ToString(date.year), "-">> \o Pad2(date.month) \o <<"-">> \o Pad2(date.day)

\* The dict appended for one result, lines 50-56.
Paper(result) ==
    [title     |-> result.title,
     authors   |-> [i \in 1..Len(result.authors) |-> result.authors[i].name],
     published |-> strftime(result.published),
     summary   |-> result.summary,
     pdf_url   |-> result.pdf_url]

\* client.results(search), lines 42-48: the library hands over the service's
\* hits in relevance order and stops after search.max_results of them.
client_results(hits, max_results) ==
    SubSeq(hits, 1, IF Len(hits) < max_results THEN Len(hits) ELSE max_results)

\* arxiv_search losing the last result: an off-by-one in the loop.
arxiv_search_short(delivered) ==
    [i \in 1..(IF delivered = <<>> THEN 0 ELSE Len(delivered) - 1) |-> Paper(delivered[i])]

\* arxiv_search, lines 47-58: one dict per result, in the order delivered.
arxiv_search(delivered) == [i \in 1..Len(delivered) |-> Paper(delivered[i])]

\* arxiv_search behind a memo of the calls already made: what a cache would do.
outbound_cached(log, q) == IF q \in Range(log) THEN log ELSE Append(log, q)

\* arxiv_search, lines 41-48: every invocation builds its own Client and
\* Search and queries the service; log holds the queries the service has
\* received.
outbound(log, q) == Append(log, q)

\* ------------------------------------------------------------------ the team
\* build_team, lines 114-117
participants == <<"search_agent", "summarizer_agent">>

\* A round robin that never advances.
select_speaker_stuck(t) == participants[1]

\* RoundRobinGroupChat over participants, line 115: the speaker of turn t + 1.
select_speaker(t) == participants[(t % Len(participants)) + 1]

\* A turn limit that is one too large.
turns_exhausted_late(t) == t >= max_turns + 1

\* max_turns=2, line 116: the team stops once this many turns were taken.
turns_exhausted(t) == t >= max_turns

\* tools=[arxiv_tool], line 87: only search_agent may answer with tool calls.
has_tools(agent) == agent = "search_agent"

\* A tool step that goes on as soon as one call has finished.
tools_finished_any(calls) == \E i \in 1..Len(calls) : calls[i].status = "done"

\* tools=[arxiv_tool], reflect_on_tool_use=True, lines 87-89: the agent waits
\* for every tool call of the response before it reflects on the results.
tools_finished(calls) == \A i \in 1..Len(calls) : calls[i].status = "done"

\* run_litrev, lines 128-130
task_prompt(topic, num_papers) ==
    <<"Conduct a literature review on **">> \o topic
        \o <<"** and return exactly " \o ToString(num_papers) \o " papers.">>

\* What the model may write in a turn.
ReplyTexts == {<<"a", ":", "a">>, <<" ", "a">>}

\* What the user may type as a topic.
Topics == {<<>>, <<"a", ":", " ">>}

\* What the slider is moved to.
PaperCounts == {MinPapers, DefaultPapers, MaxPapers}

\* What search_agent may ask the tool for.
ToolQueries == {<<"a">>}

\* The max_results search_agent may ask for: the least and the most.
ToolCounts == {1, MaxResultsArg}

ToolCall(q, m) == [query |-> q, max_results |-> m, status |-> "submitted"]

RECURSIVE CallsUpTo(_)
CallsUpTo(n) ==
    IF n = 0 THEN {<<>>}
    ELSE LET shorter == CallsUpTo(n - 1)
         IN  shorter \cup {Append(cs, ToolCall(q, m)) :
                               cs \in shorter, q \in ToolQueries, m \in ToolCounts}

\* What an external call may raise.
ErrorKinds == {"RuntimeError", "Exception"}

NoSearch == [max_results |-> 0, delivered |-> <<>>, papers |-> <<>>, ok |-> FALSE]


\* ------------------------------------------------------------------- state
VARIABLES
    query,          \* st.text_input("Research topic")
    n_papers,       \* st.slider("Number of papers", 1, 10, 5)
    clicked,        \* st.button("Search") on the last run of the script
    envLoopRunning, \* an event loop is already running in the script's thread
    pc,             \* where the script is: idle, try, run, except, fallback,
                    \*   fallback_run, ended
    outcome,        \* what the page ends with: none, success, error
    runLoop,        \* the loop asyncio.run creates: none, open, closed
    newLoop,        \* the loop of asyncio.new_event_loop(): none, open, closed
    current,        \* the loop installed as the thread's current one
    runs,           \* how many times _runner was started for this request
    tpc,            \* the team: none, ready, model, tools, reflect, stopped, failed
    turn,           \* turns the team has finished in this run
    turnLog,        \* who took them, in order
    toolCalls,      \* the tool calls of the response being executed
    queue,          \* messages the team has put out and run_litrev has not read
    emitted,        \* every message the team has put out for this request
    runBase,        \* Len(emitted) when the current run began
    transcript,     \* the chat entries on the page
    raised,         \* an external call or run_litrev has raised in this request
    modelCalls,     \* model calls issued for this request
    invocations,    \* arxiv_search invocations of this request
    searchLog,      \* the queries the service has received for it
    lastSearch,     \* the arxiv_search call that returned last in this turn
    abortedAt       \* <<entries on the page>> when run_litrev first raised, else <<>>

uiVars == <<query, n_papers, clicked>>
loopVars == <<runLoop, newLoop, current>>
teamVars == <<tpc, turn, turnLog, toolCalls, queue, emitted, runBase>>
searchVars == <<invocations, searchLog, lastSearch>>
vars == <<query, n_papers, clicked, envLoopRunning, pc, outcome, runLoop, newLoop,
          current, runs, tpc, turn, turnLog, toolCalls, queue, emitted, runBase,
          transcript, raised, modelCalls, invocations, searchLog,
          lastSearch, abortedAt, cmsg, cframes, centries, cstage>>

\* The page and the request state of a script run that has not reached line 23.
FreshPage ==
    /\ outcome' = "none"
    /\ runLoop' = "none" /\ newLoop' = "none" /\ current' = "none"
    /\ runs' = 0
    /\ tpc' = "none" /\ turn' = 0 /\ turnLog' = <<>> /\ toolCalls' = <<>>
    /\ queue' = <<>> /\ emitted' = <<>> /\ runBase' = 0
    /\ transcript' = <<>>
    /\ raised' = FALSE
    /\ modelCalls' = 0
    /\ invocations' = 0 /\ searchLog' = <<>>
    /\ lastSearch' = NoSearch
    /\ abortedAt' = <<>>

Init ==
    /\ query = <<>>
    /\ n_papers = DefaultPapers
    /\ clicked = FALSE
    /\ envLoopRunning \in BOOLEAN
    /\ pc = "idle"
    /\ outcome = "none"
    /\ runLoop = "none" /\ newLoop = "none" /\ current = "none"
    /\ runs = 0
    /\ tpc = "none" /\ turn = 0 /\ turnLog = <<>> /\ toolCalls = <<>>
    /\ queue = <<>> /\ emitted = <<>> /\ runBase = 0
    /\ transcript = <<>>
    /\ raised = FALSE
    /\ modelCalls = 0
    /\ invocations = 0 /\ searchLog = <<>>
    /\ lastSearch = NoSearch
    /\ abortedAt = <<>>
    /\ CodecInitial

ScriptAtRest == pc \in {"idle", "ended"}

\* ------------------------------------------------------------- the page
\* line 20: the user edits the topic; Streamlit reruns the script, the
\* button reads False and nothing below line 23 runs.
text_input ==
    /\ ScriptAtRest
    /\ \E q \in Topics : q # query /\ query' = q
    /\ clicked' = FALSE
    /\ pc' = "idle"
    /\ FreshPage
    /\ UNCHANGED <<n_papers, envLoopRunning, cvars>>

\* line 21: the user moves the slider; the script reruns as above.
slider ==
    /\ ScriptAtRest
    /\ \E n \in PaperCounts : n # n_papers /\ n_papers' = n
    /\ clicked' = FALSE
    /\ pc' = "idle"
    /\ FreshPage
    /\ UNCHANGED <<query, envLoopRunning, cvars>>

\* The guard of line 23 without its second operand.
search_guard_any(button, q) == button

\* line 23: if st.button("Search") and query
search_guard(button, q) == button /\ q # <<>>

\* line 23: the user presses Search; the script reruns with the button True.
button ==
    /\ ScriptAtRest
    /\ clicked' = TRUE
    /\ pc' = IF search_guard(TRUE, query) THEN "try" ELSE "idle"
    /\ FreshPage
    /\ UNCHANGED <<query, n_papers, envLoopRunning, cvars>>

\* _runner() starts on a loop: run_litrev builds the team (line 127) and the
\* task (lines 128-130), and the stream opens with the task message.
StartRunner ==
    LET task == Msg("TextMessage", <<"user">>, task_prompt(query, n_papers))
    IN  /\ runs' = runs + 1
        /\ tpc' = "ready" /\ turn' = 0 /\ turnLog' = <<>> /\ toolCalls' = <<>>
        /\ queue' = <<task>>
        /\ emitted' = Append(emitted, task)
        /\ runBase' = Len(emitted)

\* line 36: asyncio.run(_runner()).  With a loop already running it raises
\* RuntimeError before the coroutine starts; otherwise it makes a loop,
\* installs it and runs _runner on it.
asyncio_run ==
    /\ pc = "try"
    /\ IF envLoopRunning
       THEN /\ pc' = "except"
            /\ UNCHANGED <<loopVars, runs, teamVars>>
       ELSE /\ pc' = "run"
            /\ runLoop' = "open" /\ current' = "run"
            /\ StartRunner
            /\ UNCHANGED newLoop
    /\ UNCHANGED <<uiVars, envLoopRunning, outcome, transcript, raised, modelCalls,
                   searchVars, abortedAt, cvars>>

\* lines 37-40: except RuntimeError: loop = asyncio.new_event_loop();
\* asyncio.set_event_loop(loop)
new_event_loop ==
    /\ pc = "except"
    /\ newLoop' = "open"
    /\ current' = "new"
    /\ pc' = "fallback"
    /\ UNCHANGED <<uiVars, envLoopRunning, outcome, runLoop, runs, teamVars, transcript,
                   raised, modelCalls, searchVars, abortedAt, cvars>>

\* line 41: loop.run_until_complete(_runner()).  With another loop running in
\* the thread it raises RuntimeError, which nothing catches; otherwise
\* _runner starts again from the top.
run_until_complete ==
    /\ pc = "fallback"
    /\ IF envLoopRunning
       THEN /\ pc' = "ended"
            /\ outcome' = "error"
            /\ UNCHANGED <<runs, teamVars>>
       ELSE /\ pc' = "fallback_run"
            /\ StartRunner
            /\ UNCHANGED outcome
    /\ UNCHANGED <<uiVars, envLoopRunning, loopVars, transcript, raised, modelCalls,
                   searchVars, abortedAt, cvars>>


\* ------------------------------------------------------------- _runner
Running == pc \in {"run", "fallback_run"}

\* The entry put above the earlier ones.
chat_prepend(entries, entry) == <<entry>> \o entries

\* lines 30-32: with chat_placeholder: with st.chat_message("assistant"):
\* st.markdown(...), one more entry at the foot of the container.
chat_append(entries, entry) == Append(entries, entry)

RECURSIVE chat_extend(_, _)
chat_extend(entries, frames) ==
    IF frames = <<>> THEN entries
    ELSE chat_extend(chat_append(entries, render(Head(frames))), Tail(frames))

\* lines 27-32 over backend lines 132-134: run_litrev reads the next message
\* of the stream, yields its frame if it is a TextMessage, and _runner shows it.
runner_frame ==
    /\ Running
    /\ queue # <<>>
    /\ Head(queue).type \notin {"Error", "TaskResult"}
    /\ transcript' = chat_extend(transcript, run_litrev_frames(Head(queue)))
    /\ queue' = Tail(queue)
    /\ UNCHANGED <<uiVars, envLoopRunning, pc, outcome, loopVars, runs, tpc, turn, turnLog,
                   toolCalls, emitted, runBase, raised, modelCalls, searchVars, abortedAt, cvars>>

\* The stream ends: run_litrev and _runner return, the driver returns
\* (asyncio.run closes and uninstalls its loop; run_until_complete leaves the
\* loop as it is) and line 43 shows the success message.
runner_done ==
    /\ Running
    /\ queue # <<>>
    /\ Head(queue).type = "TaskResult"
    /\ queue' = Tail(queue)
    /\ pc' = "ended"
    /\ outcome' = "success"
    /\ IF pc = "run"
       THEN runLoop' = "closed" /\ current' = "none" /\ UNCHANGED newLoop
       ELSE UNCHANGED loopVars
    /\ UNCHANGED <<uiVars, envLoopRunning, runs, tpc, turn, turnLog, toolCalls, emitted,
                   runBase, transcript, raised, modelCalls, searchVars, abortedAt, cvars>>

\* The stream raises: the error leaves run_litrev and _runner.  Out of
\* asyncio.run (which closes its loop first) line 37 catches a RuntimeError
\* and lets anything else through; out of run_until_complete nothing is caught.
runner_raise ==
    /\ Running
    /\ queue # <<>>
    /\ Head(queue).type = "Error"
    /\ queue' = <<>>
    /\ tpc' = "none"
    /\ abortedAt' = IF abortedAt = <<>> THEN <<Len(transcript)>> ELSE abortedAt
    /\ IF pc = "run"
       THEN /\ runLoop' = "closed" /\ current' = "none" /\ UNCHANGED newLoop
            /\ IF Head(queue).source = "RuntimeError"
               THEN pc' = "except" /\ UNCHANGED outcome
               ELSE pc' = "ended" /\ outcome' = "error"
       ELSE /\ UNCHANGED loopVars
            /\ pc' = "ended" /\ outcome' = "error"
    /\ UNCHANGED <<uiVars, envLoopRunning, runs, turn, turnLog, toolCalls, emitted, runBase,
                   transcript, raised, modelCalls, searchVars, cvars>>

\* ------------------------------------------------------------- the team
Emit(msgs) ==
    /\ queue' = queue \o msgs
    /\ emitted' = emitted \o SelectSeq(msgs, LAMBDA m : m.type # "Error")

\* The team gives the turn to the next speaker, whose agent calls the model.
model_call ==
    /\ tpc = "ready"
    /\ tpc' = "model"
    /\ modelCalls' = modelCalls + 1
    /\ UNCHANGED <<uiVars, envLoopRunning, pc, outcome, loopVars, runs, turn, turnLog,
                   toolCalls, queue, emitted, runBase, transcript, raised, searchVars, abortedAt, cvars>>

\* The model call (the first of the turn, or the reflection on the tool
\* results) returns text: the speaker's TextMessage ends the turn, and after
\* max_turns turns the team stops and closes the stream with its TaskResult.
model_text ==
    /\ tpc \in {"model", "reflect"}
    /\ \E c \in ReplyTexts :
          LET reply == Msg("TextMessage", <<select_speaker(turn)>>, c)
              stop == Msg("TaskResult", <<>>, <<>>)
          IN  IF turns_exhausted(turn + 1)
              THEN tpc' = "stopped" /\ Emit(<<reply, stop>>)
              ELSE tpc' = "ready" /\ Emit(<<reply>>)
    /\ turn' = turn + 1
    /\ turnLog' = Append(turnLog, select_speaker(turn))
    /\ toolCalls' = <<>>
    /\ UNCHANGED <<uiVars, envLoopRunning, pc, outcome, loopVars, runs, runBase, transcript,
                   raised, modelCalls, searchVars, abortedAt, cvars>>

\* The model answers with tool calls (line 87): the agent announces them and
\* hands every one of them to the executor at once.
model_tool_calls ==
    /\ tpc = "model"
    /\ has_tools(select_speaker(turn))
    /\ \E calls \in CallsUpTo(MaxToolCalls) \ {<<>>} :
          /\ invocations + Len(calls) <= MaxInvocations
          /\ toolCalls' = calls
    /\ tpc' = "tools"
    /\ Emit(<<Msg("ToolCallRequestEvent", <<select_speaker(turn)>>, <<>>)>>)
    /\ UNCHANGED <<uiVars, envLoopRunning, pc, outcome, loopVars, runs, turn, turnLog,
                   runBase, transcript, raised, modelCalls, searchVars, abortedAt, cvars>>

\* A model call raises; the stream delivers the error after what came before.
model_raise ==
    /\ tpc \in {"model", "reflect"}
    /\ \E k \in ErrorKinds : Emit(<<Msg("Error", k, <<>>)>>)
    /\ tpc' = "failed"
    /\ raised' = TRUE
    /\ UNCHANGED <<uiVars, envLoopRunning, pc, outcome, loopVars, runs, turn, turnLog,
                   toolCalls, runBase, transcript, modelCalls, searchVars, abortedAt, cvars>>

\* arxiv_search, lines 41-48: a worker thread enters the function and sends
\* its search to the service.
arxiv_search_call ==
    /\ \E i \in 1..Len(toolCalls) :
          /\ toolCalls[i].status = "submitted"
          /\ toolCalls' = [toolCalls EXCEPT ![i].status = "running"]
          /\ searchLog' = outbound(searchLog, toolCalls[i].query)
    /\ invocations' = invocations + 1
    /\ UNCHANGED <<uiVars, envLoopRunning, pc, outcome, loopVars, runs, tpc, turn, turnLog,
                   queue, emitted, runBase, transcript, raised, modelCalls, lastSearch, abortedAt, cvars>>

\* arxiv_search, lines 47-58: the service answers and the function returns
\* its list of dicts.
arxiv_search_return ==
    /\ \E i \in 1..Len(toolCalls), hits \in HitsUpTo(MaxHits) :
          /\ toolCalls[i].status = "running"
          /\ toolCalls' = [toolCalls EXCEPT ![i].status = "done"]
          /\ LET delivered == client_results(hits, toolCalls[i].max_results)
             IN  lastSearch' = [max_results |-> toolCalls[i].max_results,
                                delivered   |-> delivered,
                                papers      |-> arxiv_search(delivered),
                                ok          |-> TRUE]
    /\ UNCHANGED <<uiVars, envLoopRunning, pc, outcome, loopVars, runs, tpc, turn, turnLog,
                   queue, emitted, runBase, transcript, raised, modelCalls, invocations,
                   searchLog, abortedAt, cvars>>

\* arxiv_search raises (the service is unreachable); the agent's tool step
\* turns the exception into an error result for the model to reflect on.
arxiv_search_raise ==
    /\ \E i \in 1..Len(toolCalls) :
          /\ toolCalls[i].status = "running"
          /\ toolCalls' = [toolCalls EXCEPT ![i].status = "done"]
    /\ raised' = TRUE
    /\ UNCHANGED <<uiVars, envLoopRunning, pc, outcome, loopVars, runs, tpc, turn, turnLog,
                   queue, emitted, runBase, transcript, modelCalls, searchVars, abortedAt, cvars>>

\* reflect_on_tool_use=True, line 89: with the tool calls finished the agent
\* reports the results and calls the model again.
reflect ==
    /\ tpc = "tools"
    /\ tools_finished(toolCalls)
    /\ tpc' = "reflect"
    /\ modelCalls' = modelCalls + 1
    /\ lastSearch' = NoSearch
    /\ Emit(<<Msg("ToolCallExecutionEvent", <<select_speaker(turn)>>, <<>>)>>)
    /\ UNCHANGED <<uiVars, envLoopRunning, pc, outcome, loopVars, runs, turn, turnLog,
                   toolCalls, runBase, transcript, raised, invocations, searchLog,
                   abortedAt, cvars>>

\* ------------------------------------------------------------ specifications
Next ==
    \/ text_input
    \/ slider
    \/ button
    \/ asyncio_run
    \/ new_event_loop
    \/ run_until_complete
    \/ runner_frame
    \/ runner_done
    \/ runner_raise
    \/ model_call
    \/ model_text
    \/ model_tool_calls
    \/ model_raise
    \/ arxiv_search_call
    \/ arxiv_search_return
    \/ arxiv_search_raise
    \/ reflect

Spec == Init /\ [][Next]_vars

\* The script runs on one thread and every step above is a step of it, of
\* the loop it drives or of a worker the loop waits for; none of them waits
\* on anything but an external call, and those are taken to return.
FairSpec == Spec /\ WF_vars(Next)

mainVars == <<query, n_papers, clicked, envLoopRunning, pc, outcome, runLoop, newLoop,
              current, runs, tpc, turn, turnLog, toolCalls, queue, emitted, runBase,
              transcript, raised, modelCalls, invocations, searchLog,
              lastSearch, abortedAt>>

CodecInit ==
    /\ CodecInputs
    /\ query = <<>> /\ n_papers = DefaultPapers /\ clicked = FALSE
    /\ envLoopRunning = FALSE /\ pc = "idle" /\ outcome = "none"
    /\ runLoop = "none" /\ newLoop = "none" /\ current = "none" /\ runs = 0
    /\ tpc = "none" /\ turn = 0 /\ turnLog = <<>> /\ toolCalls = <<>>
    /\ queue = <<>> /\ emitted = <<>> /\ runBase = 0 /\ transcript = <<>>
    /\ raised = FALSE /\ modelCalls = 0
    /\ invocations = 0 /\ searchLog = <<>> /\ lastSearch = NoSearch
    /\ abortedAt = <<>>

CodecNext ==
    \/ CodecYield /\ UNCHANGED mainVars
    \/ CodecRender /\ UNCHANGED mainVars

CodecSpec == CodecInit /\ [][CodecNext]_vars


\* ------------------------------------------------------------------ claims
\* The index of the first entry of the page with this role, 0 when none.
FirstEntry(role) ==
    IF \E i \in 1..Len(transcript) : transcript[i].role = <<role>>
    THEN CHOOSE i \in 1..Len(transcript) :
             /\ transcript[i].role = <<role>>
             /\ \A j \in 1..(i - 1) : transcript[j].role # <<role>>
    ELSE 0

RetrieverThenWriter ==
    /\ FirstEntry("search_agent") > 0
    /\ FirstEntry("summarizer_agent") > 0
    /\ FirstEntry("search_agent") < FirstEntry("summarizer_agent")

\* The request issued its external calls and none of them raised.
AllCallsReturned == modelCalls > 0 /\ ~raised

RunMsgs == SubSeq(emitted, runBase + 1, Len(emitted))

\* How many frames run_litrev yields for this agent's messages of the run.
FramesOf(agent) ==
    Cardinality({i \in 1..Len(RunMsgs) :
                    RunMsgs[i].source = <<agent>> /\ run_litrev_frames(RunMsgs[i]) # <<>>})

TurnsOf(agent) == Cardinality({i \in 1..Len(turnLog) : turnLog[i] = agent})

\* C2: a run of the team never takes more than two turns, the first is
\* search_agent's and the second summarizer_agent's, every turn taken yields
\* exactly one frame, and the team stops exactly when the second turn is over.
C2_TwoTurnsInOrder ==
    /\ Len(turnLog) <= 2
    /\ turn = Len(turnLog)
    /\ Len(turnLog) >= 1 => turnLog[1] = "search_agent"
    /\ Len(turnLog) >= 2 => turnLog[2] = "summarizer_agent"
    /\ \A a \in {"search_agent", "summarizer_agent"} : FramesOf(a) = TurnsOf(a)
    /\ (tpc = "stopped") <=> (Len(turnLog) = 2)

C2_Witness ==
    /\ tpc = "stopped" /\ pc = "ended"
    /\ turnLog = <<"search_agent", "summarizer_agent">>
    /\ FramesOf("search_agent") = 1 /\ FramesOf("summarizer_agent") = 1

\* The messages run_litrev has read so far, in the order the team put them out.
Consumed ==
    SubSeq(emitted, 1, Len(emitted) - Len(SelectSeq(queue, LAMBDA m : m.type # "Error")))

ConsumedTexts == SelectSeq(Consumed, LAMBDA m : m.type = "TextMessage")

\* C3: the page holds, in the order of emission, exactly one entry for every
\* text message read from the stream (its source as the role, its content
\* stripped), and nothing of the stream is left unread when a request completes.
C3_TranscriptInEmissionOrder ==
    /\ transcript = [i \in 1..Len(ConsumedTexts) |->
                        [role    |-> ConsumedTexts[i].source,
                         content |-> strip(ConsumedTexts[i].content)]]
    /\ (pc = "ended" /\ outcome = "success") => queue = <<>>

C3_Witness ==
    /\ pc = "ended" /\ outcome = "success"
    /\ Len(transcript) = 3
    /\ \E i \in 1..Len(emitted) : emitted[i].type = "ToolCallExecutionEvent"
    /\ transcript[2].content # transcript[3].content

\* C4: once an error has been raised in a request the pipeline is not started
\* again, nothing more is appended to the page, and the request ends with the
\* error on the page, not with the success message.
C4_FailureAbortsWithoutRetry ==
    /\ abortedAt # <<>> =>
          /\ runs = 1
          /\ Len(transcript) = abortedAt[1]
          /\ outcome # "success"
    /\ (raised /\ pc = "ended") => outcome = "error"

\* C5: a request whose asyncio.run failed on the environment has, when it
\* ends, run the pipeline exactly once on the loop it created, and that loop
\* is closed and no longer installed.
C5_FallbackDriverDiscarded ==
    (pc = "ended" /\ envLoopRunning /\ clicked /\ query # <<>>) =>
        /\ runs = 1
        /\ raised \/ outcome = "success"
        /\ newLoop = "closed"
        /\ current # "new"

\* C6: after Search is pressed with an empty topic the script is at rest with
\* no run of the pipeline, no model or search call, an empty page and no
\* success message.
C6_EmptyTopicIsInert ==
    (clicked /\ query = <<>>) =>
        /\ pc = "idle"
        /\ runs = 0 /\ tpc = "none"
        /\ modelCalls = 0 /\ invocations = 0 /\ searchLog = <<>>
        /\ emitted = <<>> /\ transcript = <<>>
        /\ outcome = "none"

C6_Witness == clicked /\ query = <<>> /\ n_papers = MinPapers

\* C7: the list arxiv_search returns holds one record per result delivered,
\* in the order delivered (title, authors' names, summary and link of the
\* result at the same place), at most max_results of them, and is the empty
\* list when nothing was delivered.
C7_OneRecordPerResult ==
    lastSearch.ok =>
        /\ Len(lastSearch.papers) = Len(lastSearch.delivered)
        /\ Len(lastSearch.papers) <= lastSearch.max_results
        /\ \A i \in 1..Len(lastSearch.delivered) :
              /\ lastSearch.papers[i].title = lastSearch.delivered[i].title
              /\ lastSearch.papers[i].summary = lastSearch.delivered[i].summary
              /\ lastSearch.papers[i].pdf_url = lastSearch.delivered[i].pdf_url
              /\ Len(lastSearch.papers[i].authors) = Len(lastSearch.delivered[i].authors)
        /\ lastSearch.delivered = <<>> => lastSearch.papers = <<>>

C7_Witness ==
    /\ lastSearch.ok
    /\ Len(lastSearch.papers) = 2
    /\ lastSearch.papers[1].title = "t2" /\ lastSearch.papers[2].title = "t1"

\* C8: the service has received exactly as many searches as arxiv_search was
\* invoked, the same query and max_results asked twice included.
C8_EveryInvocationSearches == Len(searchLog) = invocations

C8_Witness ==
    /\ invocations = 2 /\ searchLog[1] = searchLog[2]
    /\ Len(toolCalls) = 2
    /\ toolCalls[1].query = toolCalls[2].query
    /\ toolCalls[1].max_results = toolCalls[2].max_results

ModelInProgress == tpc \in {"model", "reflect"}

SearchesInProgress ==
    Cardinality({i \in 1..Len(toolCalls) : toolCalls[i].status = "running"})

WriterAfterRetriever ==
    (ModelInProgress /\ select_speaker(turn) = "summarizer_agent") =>
        /\ turnLog = <<"search_agent">>
        /\ toolCalls = <<>>

\* C9 as claimed: at most one external call, search or model, is in progress
\* at any time, and the writer's model call starts only after the retriever's
\* turn is over.
C9_OneExternalCallAtATime ==
    /\ (IF ModelInProgress THEN 1 ELSE 0) + SearchesInProgress <= 1
    /\ WriterAfterRetriever

\* C9 as amended: a model call is never in progress together with a search
\* call (so model calls follow one another and the searches of a response),
\* and the writer's model call starts only after the retriever's turn is over.
C9_ModelCallsAreExclusive ==
    /\ ModelInProgress => SearchesInProgress = 0
    /\ WriterAfterRetriever

C9_Witness ==
    /\ tpc = "model" /\ select_speaker(turn) = "summarizer_agent"
    /\ invocations = 2 /\ runs = 1

\* t is c without its leading and trailing whitespace.
IsStripOf(t, c) ==
    /\ t = <<>> \/ (t[1] # " " /\ t[Len(t)] # " ")
    /\ \E i \in 0..Len(c), j \in 0..Len(c) :
          /\ t = SubSeq(c, i + 1, j)
          /\ \A k \in 1..i : c[k] = " "
          /\ \A k \in (j + 1)..Len(c) : c[k] = " "

\* C10: a text message with source s and content c yields the one frame
\* s + ": " + c, and when s holds no colon its rendering has role s and
\* content c without its surrounding whitespace; any other message yields
\* no frame and no entry.
C10_FrameRoundTrip ==
    cstage = "rendered" =>
        IF cmsg.type = "TextMessage"
        THEN /\ cframes = <<cmsg.source \o <<":", " ">> \o cmsg.content>>
             /\ Len(centries) = 1
             /\ ":" \notin Range(cmsg.source) =>
                   /\ centries[1].role = cmsg.source
                   /\ IsStripOf(centries[1].content, cmsg.content)
        ELSE cframes = <<>> /\ centries = <<>>

C10_Witness ==
    /\ cstage = "rendered" /\ cmsg.type = "TextMessage"
    /\ cmsg.source = <<"a", " ">>
    /\ cmsg.content = <<" ", ":", "a">>
    /\ centries[1].content = <<":", "a">>

====
